---- MODULE Spec2Model ----
(***************************************************************************)
(* A model of the elmkc connection supervisor (src/src/socket.rs), the     *)
(* wire protocol (src/src/protocol.rs) and the application's update        *)
(* handler (src/src/main.rs).                                              *)
(*                                                                         *)
(* The supervisor is the closure given to iced's subscription::unfold: one *)
(* call of it is one iteration, which returns (Option<Event>, State).  The *)
(* application is ElmKC::update, which consumes the events the supervisor  *)
(* emitted, in order, and submits frames through Connection::send.         *)
(***************************************************************************)
EXTENDS Integers, Sequences, FiniteSets, TLC

VARIABLES
    state,       \* socket.rs State: "Disconnected", "Connected"; "Panicked" once the worker unwound
    pc,          \* position inside the Disconnected arm: "idle", or "sleep" (awaiting tokio::time::sleep)
    websock,     \* TRUE iff the State value holds a WebSocketStream
    input,       \* TRUE iff the State value holds the mpsc::Receiver
    chan,        \* identity of the channel created by the latest handshake
    queue,       \* frames pending in that channel (empty once its receiver is dropped)
    parked,      \* the channel's sender is parked (its last message went over the buffer)
    inbox,       \* socket messages that arrived on the WebSocket and are not read yet
    events,      \* events the supervisor emitted that update() has not consumed yet
    socket,      \* ElmKC.socket : SocketState
    appInput,    \* ElmKC.input
    messages,    \* ElmKC.messages
    username,    \* ElmKC.username
    panicked,    \* "None", or the SendError kind that update() unwrapped: the process is gone
    ret,         \* what the supervisor's latest iteration returned: [op, ev]
    hist,        \* history recording is on (off in the liveness specification)
    menu,        \* with history on: which of the Menus the server sends from in this run
    conn,        \* history: number of successful handshakes so far
    fails,       \* history: failed handshakes before the first successful one
    preLog,      \* history: events emitted up to and including the first Connected
    enq,         \* history: frames enqueued on the current channel
    written,     \* history: texts written to the current connection's socket
    attempts,    \* history: write attempts on the current connection
    arrived,     \* history: socket messages that arrived on the current connection
    readLog,     \* history: socket messages the supervisor read on the current connection
    recvLog,     \* history: payloads of the Received events of the current connection
    tearDisc,    \* history: Disconnected events caused by the current connection's teardown
    spent,       \* history: handshakes, arrivals and submissions recorded so far
    pulse        \* with history off: [kind, bit], the bit flipped by each supervisor step of that kind

vars == << state, pc, websock, input, chan, queue, parked, inbox, events,
           socket, appInput, messages, username, panicked, ret, hist, menu, conn,
           fails, preLog, enq, written, attempts, arrived, readLog, recvLog,
           tearDisc, spent, pulse >>

supVars == << state, pc, websock, input, chan, queue, parked >>
appVars == << socket, appInput, messages, username, panicked >>
connHist == << enq, written, attempts, arrived, readLog, recvLog, tearDisc >>

----------------------------------------------------------------------------
(* Bounds of the model.                                                    *)

\* buffer of mpsc::channel(100) in socket.rs, scaled down
ChannelBuffer == 1
\* events in flight between the supervisor and update()
MaxEvents == 2
\* socket messages buffered on the WebSocket before they are read
MaxInbox == 2
\* with history on: the handshakes (the failed ones up to the first success),
\* socket messages and submitted frames recorded in one run
MaxHistory == 4

\* Channel identities are exact while history is on.  With history off they
\* are reused: a sender of an older channel than the latest is held by
\* update() or by a Connected event in flight, and each handshake since it was
\* made has left a Disconnected and a Connected event in flight behind it.
NumChans == (MaxEvents \div 2) + 1

----------------------------------------------------------------------------
(* protocol.rs                                                             *)

Token == "T"

Auth == [auth |-> "google", token |-> Token]

\* what the user may type; with history off the text does not matter and
\* every submitted frame carries the empty one
Inputs == IF hist THEN {"", "a"} ELSE {""}

hello(auth) == [auth |-> auth, data |-> [type |-> "hello", data |-> [last_message |-> -1]]]

\* a Message frame that names message 1 for want of a reply target
message_replying(auth, content, reply) ==
    [auth |-> auth,
     data |-> [type |-> "message",
               data |-> [reply |-> IF reply = "None" THEN 1 ELSE reply, text |-> content]]]

message(auth, content, reply) ==
    [auth |-> auth,
     data |-> [type |-> "message",
               data |-> [reply |-> IF reply = "None" THEN 0 ELSE reply, text |-> content]]]

\* an encoding that keeps the authentication descriptor as an object of its own
EncodeNested(m) == [auth |-> m.auth, type |-> m.data.type, data |-> m.data.data]

\* serde_json::to_string of an OutboundMessage: both parts are #[serde(flatten)]
Encode(m) ==
    [auth |-> m.auth.auth, token |-> m.auth.token, type |-> m.data.type, data |-> m.data.data]

UserStatus == {"authenticated", "banned", "nameexists", "nameinvalid", "namelength",
               "nametimeout", "rename", "setuserconf", "unauthenticated"}

\* InboundData: the lowercase tag of each variant and the fields of its data
InboundFields ==
    [accepted    |-> {"message"},
     authlevel   |-> {"value"},
     chat        |-> {"auth", "author", "author_color", "author_id", "author_level",
                      "donate_value", "id", "message", "reply", "time"},
     delete      |-> {"messages"},
     getuserconf |-> {"color", "name"},
     join        |-> {"name"},
     part        |-> {"name"},
     servermsg   |-> {"message"},
     status      |-> {"status"}]

\* serde_json::from_str::<InboundMessage>
Decode(json) ==
    IF /\ json.type \in DOMAIN InboundFields
       /\ DOMAIN json.data = InboundFields[json.type]
       /\ json.type = "status" => json.data.status \in UserStatus
    THEN [ok |-> TRUE, value |-> [variant |-> json.type, data |-> json.data]]
    ELSE [ok |-> FALSE]

JsonJoin == [type |-> "join", data |-> [name |-> "bob"]]
JsonChat ==
    [type |-> "chat",
     data |-> [auth |-> 0, author |-> "bob", author_color |-> "ff0000", author_id |-> 7,
               author_level |-> 0, donate_value |-> "", id |-> 1, message |-> "hi",
               reply |-> 0, time |-> 1000]]
JsonDelete == [type |-> "delete", data |-> [messages |-> {1}]]
JsonStatus == [type |-> "status", data |-> [status |-> "authenticated"]]
JsonGetUserConf == [type |-> "getuserconf", data |-> [color |-> "ff0000", name |-> "bob"]]
JsonChat2 == [JsonChat EXCEPT !.data.id = 2, !.data.author = "eve", !.data.message = "yo"]
JsonAccepted == [type |-> "accepted", data |-> [message |-> "ok"]]
JsonAuthLevel == [type |-> "authlevel", data |-> [value |-> 1]]
\* texts that do not decode: a type that is no variant, a variant without its field
JsonUnknown == [type |-> "bogus", data |-> [name |-> "bob"]]
JsonMalformed == [type |-> "join", data |-> [nick |-> "bob"]]

Text(json) == [kind |-> "Text", body |-> json]
Ping == [kind |-> "Ping"]
Pong == [kind |-> "Pong"]
Binary == [kind |-> "Binary"]
Close == [kind |-> "Close"]

\* With history on, the socket messages of one run come from one of these
\* sets: chat traffic with a text of an unknown type, a log of mixed entries
\* with a deletion, the variants update() does not act upon, with a text
\* that lacks its field, and the messages that are not texts.
Menus ==
    << {Text(JsonChat), Text(JsonDelete), Text(JsonUnknown), Ping},
       {Text(JsonJoin), Text(JsonChat), Text(JsonChat2), Text(JsonDelete)},
       {Text(JsonStatus), Text(JsonAccepted), Text(JsonAuthLevel), Text(JsonGetUserConf),
        Text(JsonMalformed)},
       {Binary, Pong, Close} >>

\* what the server may put on the socket
ServerFrames ==
    IF hist
    THEN Menus[menu]
    ELSE {Text(JsonStatus), Text(JsonUnknown), Ping}

----------------------------------------------------------------------------
(* socket.rs: events and the channel                                       *)

NoEvent == [type |-> "None"]
Connected(c) == [type |-> "Connected", connection |-> c]
Disconnected == [type |-> "Disconnected"]
Received(m) == [type |-> "Received", message |-> m]

SocketConnected(c) == [tag |-> "Connected", connection |-> c]
SocketDisconnected == [tag |-> "Disconnected"]

\* the receiver of channel c is alive
IsOpen(c) == input /\ c = chan

Log(s, x) == IF hist THEN Append(s, x) ELSE s

\* a sender that puts its frame at the front of the queue
do_send_front(q, m) == [queue |-> << m >> \o q, parked |-> Len(q) + 1 > ChannelBuffer]

\* Sender::do_send_b: enqueue, and park the sender when the message goes over the buffer
do_send_b(q, m) == [queue |-> Append(q, m), parked |-> Len(q) + 1 > ChannelBuffer]

\* a receiver that takes the newest frame instead of the oldest
next_message_newest(q) == [msg |-> q[Len(q)], rest |-> SubSeq(q, 1, Len(q) - 1)]

\* a receiver that reads the oldest frame and leaves it queued
next_message_peek(q) == [msg |-> Head(q), rest |-> q]

\* Receiver::next_message: the frame the receiver takes, and what stays queued
next_message(q) == [msg |-> Head(q), rest |-> Tail(q)]

\* a handshake whose channel is handed out without Hello in it
NewChannelEmpty == [queue |-> << >>, parked |-> FALSE]

\* the channel a successful handshake creates: mpsc::channel(100), then sender.send(hello)
NewChannel == do_send_b(<< >>, hello(Auth))

\* what the channel of mpsc::channel(100) holds at most: its buffer, and one
\* more frame for its one sender, which that frame parks
Capacity == ChannelBuffer + 1

Alive == panicked = "None"

Beat(kind) == IF pulse.kind = kind THEN [pulse EXCEPT !.bit = ~@] ELSE pulse

----------------------------------------------------------------------------
InitAny ==
    /\ state = "Disconnected"
    /\ pc = "idle"
    /\ websock = FALSE
    /\ input = FALSE
    /\ chan = 0
    /\ queue = << >>
    /\ parked = FALSE
    /\ inbox = << >>
    /\ events = << >>
    /\ socket = SocketDisconnected
    /\ appInput = ""
    /\ messages = << >>
    /\ username = "None"
    /\ panicked = "None"
    /\ ret = [op |-> "none", ev |-> NoEvent]
    /\ hist \in BOOLEAN
    /\ menu \in IF hist THEN DOMAIN Menus ELSE {1}
    /\ conn = 0
    /\ fails = 0
    /\ preLog = << >>
    /\ enq = << >>
    /\ written = << >>
    /\ attempts = << >>
    /\ arrived = << >>
    /\ readLog = << >>
    /\ recvLog = << >>
    /\ tearDisc = 0
    /\ spent = 0
    /\ pulse \in [kind : IF hist THEN {"none"} ELSE {"attempt", "read", "write"}, bit : {FALSE}]

----------------------------------------------------------------------------
(* socket.rs: one iteration of the closure given to subscription::unfold.  *)
(* Each match arm is an operator giving the pair the closure returns:      *)
(* ev, the Option<Event>, and next, the tag of the State it hands back.    *)

\* a socket error that is reported while the connection is kept
OnReceivedKeepsSocket(received) ==
    IF received.kind = "Err"
    THEN [ev |-> Disconnected, next |-> "Connected"]
    ELSE [ev |-> NoEvent, next |-> "Connected"]

\* a text that does not decode is handled like a read error
OnReceivedBadTextDisconnects(received) ==
    CASE received.kind = "Err" -> [ev |-> Disconnected, next |-> "Disconnected"]
      [] received.kind = "Text" ->
            IF Decode(received.body).ok
            THEN [ev |-> Received(Decode(received.body).value), next |-> "Connected"]
            ELSE [ev |-> Disconnected, next |-> "Disconnected"]
      [] OTHER -> [ev |-> NoEvent, next |-> "Connected"]

\* a Close message that is taken for the end of the connection
OnReceivedCloseDisconnects(received) ==
    CASE received.kind \in {"Err", "Close"} -> [ev |-> Disconnected, next |-> "Disconnected"]
      [] received.kind = "Text" ->
            IF Decode(received.body).ok
            THEN [ev |-> Received(Decode(received.body).value), next |-> "Connected"]
            ELSE [ev |-> NoEvent, next |-> "Panicked"]
      [] OTHER -> [ev |-> NoEvent, next |-> "Connected"]

\* the arms of `match received` in the select's socket branch
OnReceived(received) ==
    CASE received.kind = "Err" -> [ev |-> Disconnected, next |-> "Disconnected"]
      [] received.kind = "Text" ->
            IF Decode(received.body).ok
            THEN [ev |-> Received(Decode(received.body).value), next |-> "Connected"]
            ELSE [ev |-> NoEvent, next |-> "Panicked"]       \* from_str(..).unwrap()
      [] OTHER -> [ev |-> NoEvent, next |-> "Connected"]

\* a write whose result is not looked at
OnSentUnchecked(ok) == [ev |-> NoEvent, next |-> "Connected"]

\* `if result.is_ok()` in the select's queue branch
OnSent(ok) ==
    IF ok
    THEN [ev |-> NoEvent, next |-> "Connected"]
    ELSE [ev |-> Disconnected, next |-> "Disconnected"]

\* a failed handshake that is retried without telling anyone
OnConnectQuiet(ok, sender) ==
    IF ok
    THEN [ev |-> Connected(sender), next |-> "Connected"]
    ELSE [ev |-> NoEvent, next |-> "Disconnected"]

\* the arms of `match connect_async(..).await`, the sleep of the Err arm done
OnConnect(ok, sender) ==
    IF ok
    THEN [ev |-> Connected(sender), next |-> "Connected"]
    ELSE [ev |-> Disconnected, next |-> "Disconnected"]

\* the runtime polls the stream for its next item once it has room for the event
Polled == Alive /\ Len(events) < MaxEvents

\* a select that polls the socket branch first, every time
QueueReadyAfterSocket == queue # << >> /\ inbox = << >>

\* the branches of the select that are ready
SocketReady == inbox # << >>
QueueReady == queue # << >>

\* the returned pair takes effect: the event goes to the runtime, the State
\* value is replaced, and what the old State held and the new one does not
\* hold is dropped
Return(op, r) ==
    /\ events' = IF r.ev = NoEvent THEN events ELSE Append(events, r.ev)
    /\ state' = r.next
    /\ websock' = (r.next = "Connected")
    /\ input' = (r.next = "Connected")
    /\ ret' = [op |-> op, ev |-> r.ev]
    /\ preLog' = IF hist /\ conn = 0 /\ r.ev # NoEvent THEN Append(preLog, r.ev) ELSE preLog

\* State::Disconnected arm, connect_async returned Ok
HandshakeOk ==
    /\ Polled /\ state = "Disconnected" /\ pc = "idle"
    /\ hist => spent < MaxHistory
    /\ LET c == IF hist THEN chan + 1 ELSE (chan + 1) % NumChans
           r == OnConnect(TRUE, c)
       IN /\ Return("connect_ok", r)
          /\ chan' = c
          /\ queue' = NewChannel.queue
          /\ parked' = NewChannel.parked
    /\ inbox' = << >>
    /\ conn' = IF hist THEN conn + 1 ELSE conn
    /\ spent' = IF hist THEN spent + 1 ELSE spent
    /\ fails' = fails
    /\ enq' = IF hist THEN NewChannel.queue ELSE << >>
    /\ written' = << >> /\ attempts' = << >> /\ arrived' = << >>
    /\ readLog' = << >> /\ recvLog' = << >> /\ tearDisc' = 0
    /\ pulse' = Beat("attempt")
    /\ UNCHANGED << pc, appVars, hist, menu >>

\* a failed handshake that is reported at once, without the sleep
HandshakeErrNoSleep ==
    /\ Polled /\ state = "Disconnected" /\ pc = "idle"
    /\ (hist /\ conn = 0) => spent < MaxHistory
    /\ Return("connect_err", OnConnect(FALSE, chan))
    /\ fails' = IF hist /\ conn = 0 THEN fails + 1 ELSE fails
    /\ spent' = IF hist /\ conn = 0 THEN spent + 1 ELSE spent
    /\ UNCHANGED << pc, chan, queue, parked, inbox, appVars, hist, menu, conn, connHist >>
    /\ pulse' = Beat("attempt")

\* State::Disconnected arm, connect_async returned Err: the worker starts its sleep
HandshakeErr ==
    /\ Polled /\ state = "Disconnected" /\ pc = "idle"
    /\ (hist /\ conn = 0) => spent < MaxHistory
    /\ pc' = "sleep"
    /\ fails' = IF hist /\ conn = 0 THEN fails + 1 ELSE fails
    /\ spent' = IF hist /\ conn = 0 THEN spent + 1 ELSE spent
    /\ UNCHANGED << state, websock, input, chan, queue, parked, inbox, events,
                    appVars, ret, hist, menu, conn, preLog, connHist >>
    /\ pulse' = Beat("attempt")

\* a worker that gives up after a failed handshake: it reports it and stops
SleepDoneGivesUp ==
    /\ Polled /\ state = "Disconnected" /\ pc = "sleep"
    /\ Return("connect_err", OnConnect(FALSE, chan))
    /\ pc' = "stopped"
    /\ UNCHANGED << chan, queue, parked, inbox, appVars, hist, menu, conn, fails, connHist, spent, pulse >>

\* the sleep is over: the Err arm returns
SleepDone ==
    /\ Polled /\ state = "Disconnected" /\ pc = "sleep"
    /\ Return("connect_err", OnConnect(FALSE, chan))
    /\ pc' = "idle"
    /\ UNCHANGED << chan, queue, parked, inbox, appVars, hist, menu, conn, fails, connHist, spent, pulse >>

\* a teardown that leaves the pending frames in the channel
AfterConnectedKeepsQueue(r, rest, unread) ==
    /\ queue' = rest
    /\ inbox' = IF r.next = "Connected" THEN unread ELSE << >>
    /\ tearDisc' = IF hist /\ r.ev = Disconnected THEN tearDisc + 1 ELSE tearDisc

\* what a Connected iteration leaves of the channel and the socket
AfterConnected(r, rest, unread) ==
    /\ queue' = IF r.next = "Connected" THEN rest ELSE << >>
    /\ inbox' = IF r.next = "Connected" THEN unread ELSE << >>
    /\ tearDisc' = IF hist /\ r.ev = Disconnected THEN tearDisc + 1 ELSE tearDisc

\* State::Connected arm, the socket branch of the select wins with a message
SupRead ==
    /\ Polled /\ state = "Connected" /\ SocketReady
    /\ LET received == Head(inbox)
           r == OnReceived(received)
       IN /\ Return("read", r)
          /\ AfterConnected(r, queue, Tail(inbox))
          /\ parked' = IF r.next = "Connected" THEN parked ELSE FALSE
          /\ readLog' = Log(readLog, received)
          /\ recvLog' = IF r.ev.type = "Received" THEN Log(recvLog, r.ev.message) ELSE recvLog
    /\ pulse' = Beat("read")
    /\ UNCHANGED << pc, chan, appVars, hist, menu, conn, fails, enq, written, attempts, arrived, spent >>

\* State::Connected arm, the socket branch of the select wins with an error
SupReadErr ==
    /\ Polled /\ state = "Connected"
    /\ LET r == OnReceived([kind |-> "Err"])
       IN /\ Return("read_err", r)
          /\ AfterConnected(r, queue, inbox)
          /\ parked' = IF r.next = "Connected" THEN parked ELSE FALSE
    /\ UNCHANGED << pc, chan, appVars, hist, menu, conn, fails, enq, written, attempts,
                    arrived, readLog, recvLog, spent, pulse >>

\* State::Connected arm, the queue branch of the select wins: one frame is
\* taken from the channel, encoded and written; the write succeeds or fails.
\* unread is what the socket holds unread afterwards.
Write(unread) ==
    /\ Polled /\ state = "Connected" /\ QueueReady
    /\ \E ok \in BOOLEAN :
        LET nm == next_message(queue)
            text == Encode(nm.msg)
            r == OnSent(ok)
        IN /\ Return(IF ok THEN "write" ELSE "write_err", r)
           /\ AfterConnected(r, nm.rest, unread)
           /\ parked' = FALSE
           /\ attempts' = Log(attempts, text)
           /\ written' = IF ok THEN Log(written, text) ELSE written
    /\ pulse' = Beat("write")
    /\ UNCHANGED << pc, chan, appVars, hist, menu, conn, fails, enq, arrived, readLog, recvLog, spent >>

\* a select that drops what the losing socket branch had already taken
SupWriteDropsRead == Write(IF inbox = << >> THEN inbox ELSE Tail(inbox))

\* the socket branch lost the race, or was not ready: what is unread stays unread
SupWrite == Write(inbox)

\* the server puts a message on the socket
ServerSend ==
    /\ Alive /\ websock /\ Len(inbox) < MaxInbox
    /\ hist => spent < MaxHistory
    /\ \E m \in ServerFrames :
        /\ inbox' = Append(inbox, m)
        /\ arrived' = Log(arrived, m)
    /\ spent' = IF hist THEN spent + 1 ELSE spent
    /\ UNCHANGED << supVars, events, appVars, ret, hist, menu, conn, fails, preLog, enq,
                    written, attempts, readLog, recvLog, tearDisc, pulse >>

----------------------------------------------------------------------------
(* main.rs: ElmKC::update                                                  *)

\* a try_send that does not look at whether its sender is parked
try_send_unbounded(c, payload) ==
    IF IsOpen(c)
    THEN [ok |-> TRUE] @@ do_send_b(queue, payload)
    ELSE [ok |-> FALSE, err |-> "Disconnected"]

\* Sender::try_send on the sender of channel c
try_send(c, payload) ==
    CASE IsOpen(c) /\ parked -> [ok |-> FALSE, err |-> "Full"]
      [] ~IsOpen(c) -> [ok |-> FALSE, err |-> "Disconnected"]
      [] OTHER -> [ok |-> TRUE] @@ do_send_b(queue, payload)

\* Event::InputChange(s)
InputChange ==
    /\ Alive
    /\ \E s \in Inputs : appInput' = s
    /\ UNCHANGED << supVars, inbox, events, socket, messages, username, panicked, ret,
                    hist, menu, conn, fails, preLog, connHist, spent, pulse >>

\* Event::SendMessage; Connection::send unwraps the result of try_send
SendMessage ==
    /\ Alive
    /\ hist => spent < MaxHistory
    /\ IF socket.tag = "Connected"
       THEN LET payload == message(Auth, appInput, "None")
                sent == try_send(socket.connection, payload)
            IN IF sent.ok
               THEN /\ queue' = sent.queue
                    /\ parked' = sent.parked
                    /\ enq' = Log(enq, payload)
                    /\ spent' = IF hist THEN spent + 1 ELSE spent
                    /\ appInput' = ""
                    /\ panicked' = panicked
               ELSE /\ panicked' = sent.err
                    /\ UNCHANGED << queue, parked, enq, appInput, spent >>
       ELSE UNCHANGED << queue, parked, enq, appInput, panicked, spent >>
    /\ UNCHANGED << state, pc, websock, input, chan, inbox, events, socket, messages,
                    username, ret, hist, menu, conn, fails, preLog, written, attempts,
                    arrived, readLog, recvLog, tearDisc, pulse >>

\* the indices the Delete arm collects: Normal entries whose id is in ids
Victims(log, ids) == {i \in 1..Len(log) : log[i].kind = "Normal" /\ log[i].id \in ids}

\* the Delete arm's loop: `for i in (0..victims.len()).rev() { messages.remove(i) }`
RemoveVictims(log, ids) == SubSeq(log, Cardinality(Victims(log, ids)) + 1, Len(log))

\* an update() that shows the text of an Accepted frame in the log
OnInboundShowsAccepted(m) ==
    IF m.variant = "accepted"
    THEN /\ messages' = Append(messages, [kind |-> "System", content |-> m.data.message])
         /\ username' = username
    ELSE UNCHANGED << messages, username >>

\* the arms of `match message.data()`.  A Normal entry keeps its author, content
\* and id; its colour and timestamp, which only the view reads, are left out.
OnInbound(m) ==
    CASE m.variant = "chat" ->
            /\ messages' = Append(messages, [kind |-> "Normal", author |-> m.data.author,
                                             content |-> m.data.message, id |-> m.data.id])
            /\ username' = username
      [] m.variant = "delete" ->
            /\ messages' = RemoveVictims(messages, m.data.messages)
            /\ username' = username
      [] m.variant = "getuserconf" ->
            /\ username' = m.data.name
            /\ messages' = messages
      [] m.variant = "join" ->
            /\ messages' = Append(messages, [kind |-> "Join", name |-> m.data.name])
            /\ username' = username
      [] m.variant = "part" ->
            /\ messages' = Append(messages, [kind |-> "Leave", name |-> m.data.name])
            /\ username' = username
      [] m.variant = "servermsg" ->
            /\ messages' = Append(messages, [kind |-> "System", content |-> m.data.message])
            /\ username' = username
      [] OTHER -> UNCHANGED << messages, username >>

\* Event::Socket(event): the runtime hands update() the oldest event
SocketEvent ==
    /\ Alive /\ events # << >>
    /\ LET event == Head(events)
       IN CASE event.type = "Connected" ->
                  /\ socket' = SocketConnected(event.connection)
                  /\ UNCHANGED << messages, username >>
            [] event.type = "Disconnected" ->
                  /\ socket' = SocketDisconnected
                  /\ UNCHANGED << messages, username >>
            [] OTHER ->
                  /\ OnInbound(event.message)
                  /\ socket' = socket
    /\ events' = Tail(events)
    /\ UNCHANGED << supVars, inbox, appInput, panicked, ret, hist, menu, conn, fails, preLog,
                    connHist, spent, pulse >>

----------------------------------------------------------------------------
Next ==
    \/ HandshakeOk
    \/ HandshakeErr
    \/ SleepDone
    \/ SupRead
    \/ SupReadErr
    \/ SupWrite
    \/ ServerSend
    \/ InputChange
    \/ SendMessage
    \/ SocketEvent

\* the safety specification: every behaviour, with its history recorded
Init == InitAny /\ hist

Spec == Init /\ [][Next]_vars

\* the liveness specification: no history, so that a run may go on for ever.
\* The executor keeps polling the worker, so an iteration that can complete
\* does: a handshake attempt ends, a sleep ends; and the runtime keeps
\* delivering events to update().  futures::select! picks among its ready
\* branches at random, anew in every iteration: a branch that is ready in
\* infinitely many iterations is taken in one of them.
\* Nothing obliges the network to fail, the server to send or the user to type.
LiveInit == InitAny /\ ~hist

Fairness ==
    /\ WF_vars(HandshakeOk \/ HandshakeErr)
    /\ WF_vars(SleepDone)
    /\ SF_vars(SupRead)
    /\ SF_vars(SupWrite)
    /\ WF_vars(SocketEvent)

LiveSpec == LiveInit /\ [][Next]_vars /\ Fairness

----------------------------------------------------------------------------
(* Properties.                                                             *)

IsHello(text) == text.type = "hello" /\ text.data = [last_message |-> -1]

RECURSIVE DecodedTexts(_)
\* the payloads of the decodable text frames of a sequence of socket messages
DecodedTexts(s) ==
    IF s = << >> THEN << >>
    ELSE LET m == Head(s)
         IN IF m.kind = "Text" /\ Decode(m.body).ok
            THEN << Decode(m.body).value >> \o DecodedTexts(Tail(s))
            ELSE DecodedTexts(Tail(s))

\* C1: on every connection the first frame the supervisor writes, or tries
\* to write, to the socket is Hello{last_message: -1}: no frame submitted
\* through Connection::send is written before it.
C1_HelloFirst ==
    /\ attempts # << >> => IsHello(attempts[1])
    /\ written # << >> => IsHello(written[1])

\* C1 witness: a submitted frame has been written on a connection, after Hello
C1_Witness ==
    /\ conn >= 1 /\ Len(written) >= 2
    /\ written[2].type = "message"

\* C2: Connection::send on a handle whose channel the supervisor has torn
\* down never crashes the process.
C2_StaleSendNeverCrashes == panicked # "Disconnected"

\* C3: until the first successful handshake the supervisor has emitted one
\* Disconnected event per failed attempt (the attempt whose sleep is not over
\* has not emitted its own yet) and nothing else; at the first success the
\* events are N Disconnected followed by one Connected, N the number of
\* failed attempts.
C3_ReconnectEvents ==
    LET done == IF pc = "sleep" THEN fails - 1 ELSE fails
    IN /\ conn = 0 => preLog = [i \in 1..done |-> Disconnected]
       /\ conn >= 1 =>
            /\ Len(preLog) = fails + 1
            /\ \A i \in 1..fails : preLog[i] = Disconnected
            /\ preLog[fails + 1].type = "Connected"

\* C3 witness: two failed attempts, then a successful one
C3_Witness == conn = 1 /\ fails = 2 /\ Len(preLog) = 3

\* C4: within one connection the frames written are, in order, the encodings
\* of the first frames enqueued on its channel; while the connection lasts
\* the frames not yet taken are exactly the rest, in order.
C4_OutboundOrder ==
    /\ Len(attempts) <= Len(enq)
    /\ \A i \in 1..Len(attempts) : attempts[i] = Encode(enq[i])
    /\ Len(written) <= Len(attempts)
    /\ \A i \in 1..Len(written) : written[i] = attempts[i]
    /\ (hist /\ state = "Connected") => queue = SubSeq(enq, Len(attempts) + 1, Len(enq))

\* C4 witness: Hello and two different submitted frames written, an inbound
\* message read in between
C4_Witness ==
    /\ Len(written) = 3 /\ written[2] # written[3]
    /\ readLog # << >>

\* C5: within one connection what the supervisor has read is what arrived, in
\* order and without a gap, what is unread is the rest, and the Received
\* events emitted are the payloads of the decodable text frames read, in order.
C5_InboundOrder ==
    /\ Len(readLog) <= Len(arrived)
    /\ \A i \in 1..Len(readLog) : readLog[i] = arrived[i]
    /\ (hist /\ state = "Connected") => arrived = readLog \o inbox
    /\ recvLog = DecodedTexts(readLog)

\* C5 witness: two different frames delivered on a connection that also wrote
C5_Witness ==
    /\ Len(recvLog) = 2 /\ recvLog[1] # recvLog[2]
    /\ written # << >>

HelloCount(texts) == Cardinality({i \in 1..Len(texts) : IsHello(texts[i])})

TornDown == conn >= 1 /\ state = "Disconnected"

\* C6: while the supervisor stays Connected and the process lives, a frame
\* pending in the outbound queue is followed by a write and a message unread
\* on the socket is followed by a read, whatever the other source does.
C6_NoStarvation ==
    \A b \in BOOLEAN :
        /\ (pulse = [kind |-> "write", bit |-> b] /\ state = "Connected" /\ queue # << >>)
              ~> (pulse.bit # b \/ state # "Connected" \/ ~Alive)
        /\ (pulse = [kind |-> "read", bit |-> b] /\ state = "Connected" /\ inbox # << >>)
              ~> (pulse.bit # b \/ state # "Connected" \/ ~Alive)

\* C6 witness: both sources are ready at once, after the supervisor has
\* already served one of them
C6_Witness ==
    /\ ~hist /\ state = "Connected" /\ pulse.bit
    /\ Len(queue) >= 2 /\ inbox # << >>

\* C7, as stated: Hello is written on each connection at most once, and
\* exactly once by the time the connection is torn down.
C7_HelloExactlyOnce ==
    /\ HelloCount(written) <= 1
    /\ TornDown => HelloCount(written) = 1

\* C7, amended: Hello is written on each connection at most once; it has
\* been written exactly once, as the first frame, as soon as any frame has been
\* written; a connection torn down without it has written nothing, because a
\* read error or the failure of the first write ended it first.
C7_HelloAtMostOnce ==
    /\ HelloCount(attempts) <= 1
    /\ HelloCount(written) <= 1
    /\ written # << >> => (HelloCount(written) = 1 /\ IsHello(written[1]))
    /\ (TornDown /\ HelloCount(written) = 0) =>
            /\ written = << >>
            /\ Len(attempts) <= 1
            /\ ret.op \in {"read_err", "write_err", "connect_err"}

\* C7 witness: a connection torn down after Hello and a submitted frame were written
C7_Witness == TornDown /\ Len(written) >= 2 /\ HelloCount(written) = 1

\* C8: a read error and a write failure, that of Hello included, each make
\* the iteration return a Disconnected event and the Disconnected state; the
\* State value holds the socket and the receiver in the Connected state and
\* neither of them in any other, and no Connected state follows a failed write.
C8_FailureTearsDown ==
    /\ ret.op \in {"read_err", "write_err"} =>
            /\ ret.ev = Disconnected
            /\ state = "Disconnected"
    /\ websock = (state = "Connected")
    /\ input = (state = "Connected")
    /\ state # "Connected" => (queue = << >> /\ inbox = << >> /\ ~parked)
    /\ state = "Connected" => attempts = written

\* C8 witness: the write of Hello failed
C8_Witness ==
    /\ ret.op = "write_err" /\ written = << >>
    /\ Len(attempts) = 1 /\ IsHello(attempts[1])

\* C9: the teardown of a connection emits one Disconnected event, no more:
\* a connection that is still up has emitted none, one that was torn down has
\* emitted exactly one, and at most one write has failed on it, the last.
C9_OneDisconnectedPerTeardown ==
    /\ tearDisc <= 1
    /\ (hist /\ conn >= 1) => (tearDisc = 1 <=> state = "Disconnected")
    /\ Len(attempts) <= Len(written) + 1
    /\ Len(attempts) > Len(written) => (state = "Disconnected" /\ tearDisc = 1)

\* C9 witness: a second connection was torn down by a failed write
C9_Witness == conn = 2 /\ tearDisc = 1 /\ Len(attempts) > Len(written)

\* C10: as long as the process lives, a supervisor that is Disconnected makes
\* another handshake attempt; and if an attempt succeeds whenever attempts go
\* on for ever, a Disconnected supervisor becomes Connected again.
C10_AlwaysRetries ==
    /\ \A b \in BOOLEAN :
          (pulse = [kind |-> "attempt", bit |-> b] /\ state = "Disconnected" /\ Alive)
             ~> (pulse.bit # b \/ ~Alive)
    /\ SF_vars(HandshakeOk) =>
          ((state = "Disconnected" /\ Alive) ~> (state = "Connected" \/ ~Alive))

\* C10 witness: the supervisor is Disconnected after a connection was torn
\* down, has failed a handshake since, and update() still holds that connection's handle
C10_Witness ==
    /\ ~hist /\ pulse.kind = "attempt"
    /\ state = "Disconnected" /\ pc = "sleep"
    /\ socket.tag = "Connected"

\* C11: the sleep starts in the step in which a handshake fails and nowhere
\* else, and that step emits nothing; while the worker sleeps its only step is
\* the end of the sleep, which emits Disconnected and makes no handshake
\* attempt; a failed handshake is reported only from the sleep.  A read or write
\* failure leaves the worker Disconnected and not asleep, and the only step of
\* a worker in that position is a handshake attempt.
C11_DelayOnlyAfterFailedHandshake ==
    [][ /\ pc' = "sleep" /\ pc # "sleep" =>
              /\ state = "Disconnected" /\ state' = "Disconnected"
              /\ events' = events /\ ret' = ret
        /\ (pc = "sleep" /\ << state, pc, ret >>' # << state, pc, ret >>) =>
              /\ pc' = "idle" /\ state' = "Disconnected" /\ conn' = conn
              /\ ret' = [op |-> "connect_err", ev |-> Disconnected]
              /\ events' = Append(events, Disconnected)
        /\ (ret' # ret /\ ret'.op = "connect_err") => pc = "sleep"
        /\ (state = "Connected" /\ state' = "Disconnected") =>
              /\ ret'.op \in {"read_err", "write_err"}
              /\ pc' = "idle"
        /\ (state = "Disconnected" /\ pc = "idle" /\ << state, pc, ret >>' # << state, pc, ret >>) =>
              \/ state' = "Connected" /\ ret'.op = "connect_ok" /\ conn' = conn + 1
              \/ state' = "Disconnected" /\ pc' = "sleep"
      ]_vars

\* C11 witness: a connection was torn down by a read or write failure, then a
\* handshake failed, the worker slept and reported it
C11_Witness ==
    /\ conn >= 1 /\ tearDisc = 1
    /\ ret = [op |-> "connect_err", ev |-> Disconnected]
    /\ state = "Disconnected" /\ pc = "idle"

\* C12: a step that emits a Connected event is the return of a successful
\* handshake: the worker was Disconnected and not asleep, it becomes Connected,
\* the channel is a new one, the event carries that channel's sender, and the
\* channel holds Hello and nothing else.  The return of a failed handshake
\* emits Disconnected, and every step that establishes a connection emits
\* Connected.
C12_ConnectedOnlyAfterHandshake ==
    [][ /\ (Len(events') > Len(events) /\ events'[Len(events')].type = "Connected") =>
              /\ state = "Disconnected" /\ pc = "idle" /\ state' = "Connected"
              /\ ret' = [op |-> "connect_ok", ev |-> events'[Len(events')]]
              /\ conn' = conn + 1
              /\ chan' # chan
              /\ events'[Len(events')].connection = chan'
              /\ input' /\ websock'
              /\ queue' = << hello(Auth) >>
              /\ enq' = queue'
        /\ (ret' # ret /\ ret'.op = "connect_err") =>
              /\ events' = Append(events, Disconnected)
              /\ state' = "Disconnected" /\ conn' = conn
        /\ (state # "Connected" /\ state' = "Connected") =>
              events' = Append(events, Connected(chan'))
      ]_vars

\* C12 witness: the Connected event of a second connection is in flight, its
\* channel holding Hello, after a handshake had failed
C12_Witness ==
    /\ conn = 2 /\ fails >= 1
    /\ events # << >> /\ events[Len(events)] = Connected(chan)
    /\ queue = << hello(Auth) >>

\* C13: a submission is one step of update() that waits for nothing: it can
\* be taken whenever the process lives.  The frames pending in a channel never
\* exceed its capacity, and the sender is parked exactly when they have reached
\* it.  A submission on the live channel below its capacity appends the frame;
\* one at its capacity leaves the queue as it is and ends the process, and the
\* process never ends on a full queue in any other way.
C13_BoundedQueueFailsLoudly ==
    [][ /\ (Alive /\ spent < MaxHistory) => ENABLED SendMessage
        /\ Len(queue') <= Capacity
        /\ parked' <=> Len(queue') = Capacity
        /\ (SendMessage /\ socket.tag = "Connected" /\ IsOpen(socket.connection)) =>
              IF Len(queue) < Capacity
              THEN /\ queue' = Append(queue, message(Auth, appInput, "None"))
                   /\ panicked' = "None"
              ELSE /\ queue' = queue /\ enq' = enq
                   /\ panicked' = "Full"
        /\ (panicked' = "Full" /\ panicked # "Full") =>
              /\ SendMessage
              /\ state = "Connected" /\ socket = SocketConnected(chan)
              /\ Len(queue) = Capacity
      ]_vars

\* C13 witness: a submission found the queue of the live connection at its
\* capacity, Hello among the pending frames, and ended the process
C13_Witness ==
    /\ panicked = "Full" /\ state = "Connected"
    /\ Len(queue) = Capacity /\ queue[1] = hello(Auth)

Undecodable(m) == m.kind = "Text" /\ ~Decode(m.body).ok

\* C14: the iteration that reads a text which does not decode emits no event
\* and ends the worker, and the worker ends in no other way.  From then on
\* the worker returns nothing, emits nothing, connects to nothing, reads and
\* writes nothing: the events in flight are only consumed.
C14_DecodeFailureKillsWorker ==
    [][ /\ (state = "Connected" /\ Len(readLog') > Len(readLog)
                /\ Undecodable(readLog'[Len(readLog')])) =>
              /\ state' = "Panicked"
              /\ events' = events /\ recvLog' = recvLog /\ tearDisc' = tearDisc
              /\ ret' = [op |-> "read", ev |-> NoEvent]
        /\ (state' = "Panicked" /\ state # "Panicked") =>
              /\ state = "Connected" /\ inbox # << >> /\ Undecodable(Head(inbox))
              /\ readLog' = Append(readLog, Head(inbox))
        /\ state = "Panicked" =>
              /\ UNCHANGED << supVars, inbox, ret, conn, connHist >>
              /\ ~websock /\ ~input
              /\ events' = events \/ (events # << >> /\ events' = Tail(events))
      ]_vars

\* C14 witness: the worker has ended on a text that lacks its field, with a
\* frame that arrived after it left unread, while update() holds the handle
C14_Witness ==
    /\ state = "Panicked" /\ socket = SocketConnected(chan)
    /\ readLog[Len(readLog)] = Text(JsonMalformed)
    /\ Len(arrived) > Len(readLog)

\* the variants that fall to the `_` arm of update()
Unhandled == {"accepted", "authlevel", "status"}

\* C15: the iteration that reads a text of an Accepted, AuthLevel or Status
\* frame emits Received with the decoded frame and stays Connected, with the
\* socket and the channel it had; the step of update() that consumes such an
\* event changes nothing of the application and nothing of the supervisor.
C15_UnhandledVariantsIgnored ==
    [][ /\ (state = "Connected" /\ Len(readLog') > Len(readLog)
                /\ readLog'[Len(readLog')].kind = "Text"
                /\ readLog'[Len(readLog')].body.type \in Unhandled
                /\ Decode(readLog'[Len(readLog')].body).ok) =>
              LET json == readLog'[Len(readLog')].body
              IN /\ events' = Append(events, Received([variant |-> json.type, data |-> json.data]))
                 /\ state' = "Connected" /\ websock' /\ input'
                 /\ UNCHANGED << chan, queue, parked, appVars >>
        /\ (events # << >> /\ events' = Tail(events) /\ Head(events).type = "Received"
                /\ Head(events).message.variant \in Unhandled) =>
              UNCHANGED << socket, appInput, messages, username, panicked, supVars >>
      ]_vars

\* C15 witness: update() has a username and typed text, and has consumed an
\* Accepted and a Status event on a connection that is still up
C15_Witness ==
    /\ state = "Connected" /\ socket = SocketConnected(chan) /\ events = << >>
    /\ username = "bob" /\ appInput = "a"
    /\ Len(recvLog) = 3
    /\ recvLog[2].variant = "accepted" /\ recvLog[3].variant = "status"

\* C16: every text the supervisor has written, or tried to write, on a
\* connection is one object with the four fields auth, token, type and data:
\* auth is "google", token is the token of the descriptor the program was
\* started with, type is the lowercase tag of the frame that was enqueued and
\* data is that frame's payload; and every frame pending in the channel
\* carries that descriptor.
C16_FlatEncoding ==
    /\ \A i \in 1..Len(attempts) :
          LET text == attempts[i]
              frame == enq[i]
          IN /\ DOMAIN text = {"auth", "token", "type", "data"}
             /\ text.auth = "google"
             /\ text.token = Token
             /\ text.type = frame.data.type
             /\ text.data = frame.data.data
             /\ \/ text.type = "hello" /\ text.data = [last_message |-> -1]
                \/ /\ text.type = "message"
                   /\ DOMAIN text.data = {"reply", "text"}
                   /\ text.data.text \in Inputs
    /\ \A i \in 1..Len(queue) : queue[i].auth = [auth |-> "google", token |-> Token]

\* C16 witness: Hello and a Message frame with a text written on a second connection
C16_Witness ==
    /\ conn = 2 /\ Len(written) = 2
    /\ written[1].type = "hello"
    /\ written[2].type = "message" /\ written[2].data.text = "a"

\* C17: the step that ends a connection leaves nothing pending and no
\* receiver; the step that starts one starts a new channel that holds Hello
\* alone, with nothing written yet.  Within a connection a frame is added to
\* the channel only by a submission through the sender of that channel, and
\* each text written is the encoding of the oldest frame pending in it.  A
\* submission through the sender of an earlier channel adds nothing to the
\* current one.
C17_PendingFramesDiscarded ==
    [][ /\ (state = "Connected" /\ state' # "Connected") =>
              queue' = << >> /\ ~input' /\ ~parked'
        /\ (state # "Connected" /\ state' = "Connected") =>
              /\ chan' = chan + 1 /\ conn' = conn + 1
              /\ queue' = << hello(Auth) >> /\ enq' = queue'
              /\ written' = << >> /\ attempts' = << >>
        /\ (state = "Connected" /\ state' = "Connected" /\ Len(queue') > Len(queue)) =>
              /\ socket = SocketConnected(chan)
              /\ queue' = Append(queue, message(Auth, appInput, "None"))
              /\ enq' = Append(enq, message(Auth, appInput, "None"))
        /\ Len(written') > Len(written) =>
              /\ state = "Connected" /\ queue # << >> /\ conn' = conn
              /\ written' = Append(written, Encode(Head(queue)))
              /\ Head(queue) = enq[Len(written')]
        /\ (socket.tag = "Connected" /\ socket.connection # chan /\ SendMessage) =>
              UNCHANGED << queue, parked, enq, written, attempts >>
      ]_vars

\* C17 witness: a frame was submitted on a first connection, a second one is
\* up, and update(), still holding the first one's sender, has submitted
\* through it: the second channel holds Hello alone
C17_Witness ==
    /\ conn = 2 /\ chan = 2 /\ state = "Connected"
    /\ socket = SocketConnected(1) /\ panicked = "Disconnected"
    /\ spent = 3
    /\ enq = << hello(Auth) >> /\ queue = enq

\* C18: once update() has consumed every event emitted so far, its
\* SocketState is Connected exactly when the supervisor's State is, and the
\* sender it then holds is the sender of the supervisor's current channel.
C18_AppMirrorsSupervisor ==
    events = << >> =>
        /\ socket.tag = "Connected" <=> state = "Connected"
        /\ socket.tag = "Connected" => socket.connection = chan

\* the log without its Normal entries whose id is in ids, the rest in order
WithoutVictims(log, ids) == SelectSeq(log, LAMBDA e : ~(e.kind = "Normal" /\ e.id \in ids))

\* C19: the step of update() that consumes a Delete{messages} event leaves
\* the log that it found, less the Normal entries whose id is in messages:
\* every other entry is kept, in order.
C19_DeleteRemovesVictims ==
    [][ (events # << >> /\ events' = Tail(events) /\ Head(events).type = "Received"
            /\ Head(events).message.variant = "delete") =>
          messages' = WithoutVictims(messages, Head(events).message.data.messages)
      ]_vars

\* the Message frame of the text typed so far, with no reply target
Typed == [auth |-> [auth |-> "google", token |-> Token],
          data |-> [type |-> "message", data |-> [reply |-> 0, text |-> appInput]]]

C21_NonTextIgnored ==
    [][ (state = "Connected" /\ Len(readLog') > Len(readLog)
            /\ readLog'[Len(readLog')].kind \in {"Binary", "Ping", "Pong", "Close"}) =>
          /\ readLog' = Append(readLog, Head(inbox))
          /\ inbox' = Tail(inbox)
          /\ events' = events /\ recvLog' = recvLog /\ tearDisc' = tearDisc
          /\ ret' = [op |-> "read", ev |-> NoEvent]
          /\ written' = written /\ attempts' = attempts
          /\ state' = "Connected" /\ websock' /\ input'
          /\ UNCHANGED << pc, chan, queue, parked, enq, conn, appVars >>
      ]_vars

\* C21 witness: on a connection with a submitted frame pending behind Hello
\* the supervisor has read a binary and a close message, and is Connected
\* with both frames still pending and no event emitted since Connected
C21_Witness ==
    /\ state = "Connected" /\ websock /\ input
    /\ readLog = << Binary, Close >>
    /\ ret = [op |-> "read", ev |-> NoEvent]
    /\ Len(queue) = 2 /\ queue = enq /\ written = << >>
    /\ recvLog = << >> /\ events = << >>

====
